---- MODULE Spec2Model ----
(***************************************************************************)
(* The t-test lesson notebook (5-eda/ttests) of the NESC 3505 textbook.    *)
(*                                                                         *)
(* The notebook's kernel state (df_avg, congr, incongr, inc_arr, incongr2, *)
(* the difference Series and the outputs of the cells that run a t test)   *)
(* is the state of the model; every code cell that changes it is one       *)
(* action.  The two SciPy entry points the cells call, stats.ttest_rel and *)
(* stats.ttest_1samp, are operators over exact arithmetic:                 *)
(*   - an observation is an integer (a reaction time in some unit);        *)
(*   - a mean or a variance is an exact fraction;                          *)
(*   - the statistic t is kept as its sign and the reduced fraction t^2,   *)
(*     or as one of the IEEE-754 classes NaN and +-infinity;               *)
(*   - the two-tailed probability 2 * sf(|t|, df) is kept as the argument  *)
(*     of the tail function (df and t^2), or as one of its exact values    *)
(*     0 (t infinite), 1 (t = 0) and NaN.                                  *)
(*                                                                         *)
(* Five specifications:                                                    *)
(*   Spec        the notebook, cell after cell, on a bounded df_avg;       *)
(*   SpecCall    the calls stats.ttest_rel / stats.ttest_1samp on bounded  *)
(*               sequences of any lengths (the function seen on its own);  *)
(*   SpecLesson  the selection of In [3] on the lesson's printed data;     *)
(*   SpecAgg     the aggregation of In [2] and the selection of In [3] on  *)
(*               a bounded table of trials;                                *)
(*   SpecGen     the two subject loops of the fake-RT generator notebook   *)
(*               (4-viz/make_rt_data), one iteration per step.             *)
(***************************************************************************)
EXTENDS Integers, Sequences, FiniteSets, TLC

VARIABLES
    df,                 \* rows of the trial table read by In [2]
    pc,                 \* the next cell (Spec) or call (SpecCall) to run
    df_avg,             \* rows of the aggregated DataFrame, in row order
    df_index,           \* "range": rows labelled 0..; "participant": by ID
    congr,              \* Series: sequence of [idx, val]
    incongr,            \* Series
    inc_arr,            \* numpy array of <<participant, rt>> rows
    perm,               \* the row order np.random.shuffle produced
    incongr2,           \* Series built from the shuffled array
    congr_vs_incongr,   \* Series: the last pandas difference
    out,                \* what each t-test cell / call returned or raised
    num_subj,           \* generator: number of subjects to make
    exp_name,           \* generator: experiment name, a sequence of characters
    subj,               \* generator: the loop variable (0: not yet bound)
    leading,            \* generator: '0' or '' of the current iteration
    subj_id,            \* generator: the ID of the current iteration
    subj_ids            \* generator: the IDs made so far, in order

\* The variables of the generator notebook.
gen == <<num_subj, exp_name, subj, leading, subj_id, subj_ids>>

vars == <<df, pc, df_avg, df_index, congr, incongr, inc_arr, perm, incongr2,
          congr_vs_incongr, out, gen>>

(***************************************************************************)
(* Bounds of the model.                                                    *)
(***************************************************************************)
MaxSubj == 3        \* participants in df_avg; longest sequence of a call
MaxRT == 1          \* observations are drawn from 0..MaxRT
MaxRows == 4        \* trials in the table read by In [2] (SpecAgg)
MaxNumSubj == 100   \* largest num_subj of the generator loops (SpecGen)

RTs == 0..MaxRT

(***************************************************************************)
(* Arithmetic helpers.                                                     *)
(***************************************************************************)
Abs(x) == IF x < 0 THEN -x ELSE x

Sgn(x) == IF x < 0 THEN -1 ELSE IF x = 0 THEN 0 ELSE 1

RECURSIVE GCD(_, _)
GCD(a, b) == IF b = 0 THEN a ELSE GCD(b, a % b)

RECURSIVE SumSeq(_)
SumSeq(s) == IF s = <<>> THEN 0 ELSE Head(s) + SumSeq(Tail(s))

Squares(s) == [i \in 1..Len(s) |-> s[i] * s[i]]

\* All row orders of n rows: the bijections of 1..n.
Perms(n) == {f \in [1..n -> 1..n] : \A i, j \in 1..n : f[i] = f[j] => i = j}

Reorder(s, f) == [i \in 1..Len(s) |-> s[f[i]]]

IdPerm(n) == [i \in 1..n |-> i]

(***************************************************************************)
(* numpy on a 1-d array of observations.  An element is [na, val]: na is   *)
(* TRUE for NaN, the missing value pandas puts where an index label has no *)
(* partner; val is the observation otherwise.                              *)
(***************************************************************************)
Obs(x) == [na |-> FALSE, val |-> x]

NA == [na |-> TRUE, val |-> 0]

HasNaN(a) == \E i \in 1..Len(a) : a[i].na

Vals(a) == [i \in 1..Len(a) |-> a[i].val]

\* a - b on arrays of one length: elementwise, NaN where either is NaN.
ArrSubBroadcast(a, b) ==
    [i \in 1..Len(a) |->
        IF a[i].na \/ b[1].na THEN NA ELSE Obs(a[i].val - b[1].val)]

ArrSub(a, b) ==
    [i \in 1..Len(a) |->
        IF a[i].na \/ b[i].na THEN NA ELSE Obs(a[i].val - b[i].val)]

\* a - popmean with a scalar popmean.
ArrSubScalar(a, m) ==
    [i \in 1..Len(a) |-> IF a[i].na THEN NA ELSE Obs(a[i].val - m)]

\* A float: cls "nan", or cls "num" with the exact fraction num/den, den > 0.
FNaN == [cls |-> "nan", num |-> 0, den |-> 0]

Frac(n, d) == [cls |-> "num", num |-> n, den |-> d]

\* np.mean(a): sum / n; the mean of an empty array is 0/0 = NaN.
NpMean(a) ==
    IF Len(a) = 0 \/ HasNaN(a) THEN FNaN
    ELSE Frac(SumSeq(Vals(a)), Len(a))

\* np.var(a, ddof): sum((a - mean)^2) / (n - ddof).  With S the sum and Q the
\* sum of squares, sum((a - mean)^2) = (n*Q - S*S) / n.  For n - ddof <= 0
\* numpy divides by a non-positive count and returns NaN (0/0) or +-inf; with
\* ddof = 1 this happens for n <= 1, where the sum of squares is 0: NaN.
NpVarPopulation(a, ddof) ==
    LET n == Len(a)
        S == SumSeq(Vals(a))
        Q == SumSeq(Squares(Vals(a)))
    IN  IF n = 0 \/ HasNaN(a) THEN FNaN
        ELSE Frac(n * Q - S * S, n * n)

NpVar(a, ddof) ==
    LET n == Len(a)
        S == SumSeq(Vals(a))
        Q == SumSeq(Squares(Vals(a)))
    IN  IF n - ddof <= 0 \/ HasNaN(a) THEN FNaN
        ELSE Frac(n * Q - S * S, n * (n - ddof))

(***************************************************************************)
(* The statistic and the probability.                                      *)
(*   statistic: [cls, sign, num, den]                                      *)
(*      cls "nan"                                                          *)
(*      cls "inf"     sign = +1 / -1                                       *)
(*      cls "finite"  t = sign * sqrt(num/den), num/den reduced, den > 0   *)
(*   pvalue: [cls, df, num, den]                                           *)
(*      cls "nan"; cls "zero" (= 0.0); cls "one" (= 1.0);                  *)
(*      cls "tail": 2 * sf(sqrt(num/den), df), strictly between 0 and 1    *)
(***************************************************************************)
TNaN == [cls |-> "nan", sign |-> 0, num |-> 0, den |-> 0]

TInf(s) == [cls |-> "inf", sign |-> s, num |-> 1, den |-> 0]

TFinite(s, n, d) ==
    LET g == GCD(n, d)
    IN  [cls |-> "finite", sign |-> s, num |-> n \div g, den |-> d \div g]

PNaN == [cls |-> "nan", df |-> 0, num |-> 0, den |-> 0]

PZero == [cls |-> "zero", df |-> 0, num |-> 0, den |-> 0]

POne == [cls |-> "one", df |-> 0, num |-> 0, den |-> 0]

PTail(dof, n, d) == [cls |-> "tail", df |-> dof, num |-> n, den |-> d]

\* t = np.divide(dm, np.sqrt(v / n)) under np.errstate(divide='ignore',
\* invalid='ignore'): x/0 is +-inf, 0/0 is NaN, anything with NaN is NaN.
\* For v > 0:  t^2 = dm^2 * n / v.
TDivideZeroAsNaN(dm, v, n) ==
    IF dm.cls = "nan" \/ v.cls = "nan" \/ v.num = 0 THEN TNaN
    ELSE TFinite(Sgn(dm.num),
                 dm.num * dm.num * n * v.den,
                 dm.den * dm.den * v.num)

TDivideZeroAsInf(dm, v, n) ==
    IF dm.cls = "nan" \/ v.cls = "nan" THEN TNaN
    ELSE IF v.num = 0
         THEN TInf(IF dm.num < 0 THEN -1 ELSE 1)
         ELSE TFinite(Sgn(dm.num),
                      dm.num * dm.num * n * v.den,
                      dm.den * dm.den * v.num)

TDivide(dm, v, n) ==
    IF dm.cls = "nan" \/ v.cls = "nan" THEN TNaN
    ELSE IF v.num = 0
         THEN IF dm.num = 0 THEN TNaN ELSE TInf(Sgn(dm.num))
         ELSE TFinite(Sgn(dm.num),
                      dm.num * dm.num * n * v.den,
                      dm.den * dm.den * v.num)

\* _ttest_finish, alternative='two-sided': prob = 2 * sf(|t|, df).
\* sf(inf) = 0, sf(0) = 1/2, sf(NaN) = NaN.
TTestFinishOneSided(dof, t) ==
    IF t.cls = "nan" THEN PNaN
    ELSE IF t.cls = "inf" THEN (IF t.sign > 0 THEN PZero ELSE POne)
    ELSE IF t.sign = 0 THEN PTail(dof, 0, 1)
    ELSE PTail(dof, t.sign * t.num, t.den)

TTestFinishNoAbs(dof, t) ==
    IF t.cls = "nan" THEN PNaN
    ELSE IF t.cls = "inf"
         THEN (IF t.sign > 0 THEN PZero
               ELSE [cls |-> "two", df |-> 0, num |-> 0, den |-> 0])
    ELSE IF t.sign = 0 THEN POne
    ELSE PTail(dof, t.sign * t.num, t.den)

TTestFinish(dof, t) ==
    IF t.cls = "nan" THEN PNaN
    ELSE IF t.cls = "inf" THEN PZero
    ELSE IF t.sign = 0 THEN POne
    ELSE PTail(dof, t.num, t.den)

\* p / 2 (In [10]): half of 2 * sf(|t|, df) is the one-tailed sf(|t|, df),
\* cls "sf"; half of 1.0 is cls "half"; 0.0 and NaN stay what they are.
Half(p) ==
    IF p.cls = "tail" THEN [p EXCEPT !.cls = "sf"]
    ELSE IF p.cls = "one" THEN [p EXCEPT !.cls = "half"]
    ELSE p

(***************************************************************************)
(* What a call returns or raises.                                          *)
(***************************************************************************)
NotRun == [kind |-> "none", statistic |-> TNaN, pvalue |-> PNaN]

Returned(t, p) == [kind |-> "result", statistic |-> t, pvalue |-> p]

ValueError == [kind |-> "ValueError", statistic |-> TNaN, pvalue |-> PNaN]

\* t and p are not defined when the cell that assigns them raised.
NameError == [kind |-> "NameError", statistic |-> TNaN, pvalue |-> PNaN]

(***************************************************************************)
(* pandas Series: a sequence of [idx, na, val], idx the row label.         *)
(***************************************************************************)
Elem(i, x) == [idx |-> i, na |-> FALSE, val |-> x]

ElemNA(i) == [idx |-> i, na |-> TRUE, val |-> 0]

Index(s) == [i \in 1..Len(s) |-> s[i].idx]

Labels(s) == {s[i].idx : i \in 1..Len(s)}

\* np.asarray(series): the values in row order; the index is dropped.
AsArraySortedByIndex(s) ==
    [k \in 1..Len(s) |->
        LET i == CHOOSE i \in 1..Len(s) :
                    Cardinality({j \in 1..Len(s) : s[j].idx < s[i].idx}) = k - 1
        IN  [na |-> s[i].na, val |-> s[i].val]]

AsArray(s) == [i \in 1..Len(s) |-> [na |-> s[i].na, val |-> s[i].val]]

\* A sort_index() that returns the rows in the order they are in.
SortIndexKeepsOrder(s) == s

\* series.sort_index(): rows in ascending label order (labels are unique:
\* one row per participant).
SortIndex(s) ==
    [k \in 1..Len(s) |->
        LET i == CHOOSE i \in 1..Len(s) :
                    Cardinality({j \in 1..Len(s) :
                        \/ s[j].idx < s[i].idx
                        \/ s[j].idx = s[i].idx /\ j < i}) = k - 1
        IN  s[i]]

\* The labels of a set in ascending order.
SortedLabels(L) ==
    [k \in 1..Cardinality(L) |->
        CHOOSE x \in L : Cardinality({y \in L : y < x}) = k - 1]

\* The row of s labelled x (labels are unique).
Loc(s, x) == s[CHOOSE i \in 1..Len(s) : s[i].idx = x]

\* s1 - s2 taken row by row, the labels of s1 kept: what numpy arrays do.
SeriesSubByPosition(s1, s2) ==
    [i \in 1..Len(s1) |->
        IF i > Len(s2) \/ s1[i].na \/ s2[i].na THEN ElemNA(s1[i].idx)
        ELSE Elem(s1[i].idx, s1[i].val - s2[i].val)]

\* s1 - s2 on two Series: pandas aligns the operands on their labels.  Equal
\* indexes (same labels, same order): row by row.  Otherwise the result is
\* indexed by the sorted union of the labels, and a label missing from either
\* operand gets NaN.
SeriesSub(s1, s2) ==
    IF Index(s1) = Index(s2)
    THEN [i \in 1..Len(s1) |->
            IF s1[i].na \/ s2[i].na THEN ElemNA(s1[i].idx)
            ELSE Elem(s1[i].idx, s1[i].val - s2[i].val)]
    ELSE LET U == SortedLabels(Labels(s1) \cup Labels(s2))
         IN  [k \in 1..Len(U) |->
                IF U[k] \in Labels(s1) /\ U[k] \in Labels(s2)
                   /\ ~Loc(s1, U[k]).na /\ ~Loc(s2, U[k]).na
                THEN Elem(U[k], Loc(s1, U[k]).val - Loc(s2, U[k]).val)
                ELSE ElemNA(U[k])]

(***************************************************************************)
(* scipy.stats.ttest_rel(a, b) and scipy.stats.ttest_1samp(a, popmean),    *)
(* with the defaults axis=0, nan_policy='propagate', two-sided.            *)
(***************************************************************************)
\* ttest_rel:  a, b = asarray;  unequal lengths raise ValueError('unequal
\* length arrays');  empty input returns (nan, nan);  otherwise
\*   n = len(a); df = n - 1; d = a - b; v = var(d, ddof=1); dm = mean(d);
\*   t = dm / sqrt(v / n);  prob = 2 * sf(|t|, df).
TTestRelNoLengthCheck(a, b) ==
    LET x == AsArray(a)
        y == AsArray(b)
        n == Len(x)
        m == IF Len(y) < n THEN Len(y) ELSE n
        d == ArrSub(SubSeq(x, 1, m), SubSeq(y, 1, m))
        t == TDivide(NpMean(d), NpVar(d, 1), m)
    IN  IF n = 0 THEN Returned(TNaN, PNaN)
        ELSE Returned(t, TTestFinish(m - 1, t))

TTestRel(a, b) ==
    LET x == AsArray(a)
        y == AsArray(b)
        n == Len(x)
        d == ArrSub(x, y)
        t == TDivide(NpMean(d), NpVar(d, 1), n)
    IN  IF Len(x) # Len(y) THEN ValueError
        ELSE IF n = 0 THEN Returned(TNaN, PNaN)
        ELSE Returned(t, TTestFinish(n - 1, t))

\* ttest_1samp:  a = asarray;  n = len(a); df = n - 1;
\*   d = mean(a) - popmean;  v = var(a, ddof=1);  t = d / sqrt(v / n).
\* mean(a) - popmean = mean(a - popmean), the form kept here so that the
\* difference stays an exact fraction over n.
TTest1SampDfN(a, popmean) ==
    LET x == AsArray(a)
        n == Len(x)
        t == TDivide(NpMean(ArrSubScalar(x, popmean)), NpVar(x, 1), n)
    IN  Returned(t, TTestFinish(n, t))

TTest1Samp(a, popmean) ==
    LET x == AsArray(a)
        n == Len(x)
        t == TDivide(NpMean(ArrSubScalar(x, popmean)), NpVar(x, 1), n)
    IN  Returned(t, TTestFinish(n - 1, t))

(***************************************************************************)
(* The DataFrame df_avg: rows [idx, participant, flankers, rt] in row      *)
(* order.  groupby(['participant', 'flankers']).mean().reset_index() gives *)
(* one row per participant and condition, sorted by participant and then   *)
(* by condition, labelled 0, 1, 2, ...                                     *)
(***************************************************************************)
Flankers == <<"congruent", "incongruent", "neutral">>

\* The RT of the neutral rows: no cell of the lesson reads it.
NeutralRTs == {0}

Row(i, p, f, r) == [idx |-> i, participant |-> p, flankers |-> f, rt |-> r]

\* The frame of n participants with RTs c[p], i[p], u[p] per condition.
Frame(n, c, i, u) ==
    [k \in 1..(3 * n) |->
        LET p == ((k - 1) \div 3) + 1
            f == ((k - 1) % 3) + 1
        IN  Row(k - 1, p, Flankers[f],
                IF f = 1 THEN c[p] ELSE IF f = 2 THEN i[p] ELSE u[p])]

\* A row of the trial table df = pd.read_csv(...): one trial.
Trial(p, f, r) == [participant |-> p, flankers |-> f, rt |-> r]

Participants(t) == {t[i].participant : i \in 1..Len(t)}

\* The group key (participant, flankers) as one number, ordered as pandas
\* orders the keys: by participant, then by condition name.
KeyOf(r) == 3 * r.participant + (CHOOSE f \in 1..3 : Flankers[f] = r.flankers)

\* The keys of t in the order of their first appearance.
RECURSIVE FirstSeen(_)
FirstSeen(t) ==
    IF t = <<>> THEN <<>>
    ELSE LET h == FirstSeen(SubSeq(t, 1, Len(t) - 1))
             k == KeyOf(t[Len(t)])
         IN  IF \E i \in 1..Len(h) : h[i] = k THEN h ELSE Append(h, k)

\* ['rt'].mean() of one group: the exact mean of its trials.
GroupMean(t, key) ==
    LET g == SelectSeq(t, LAMBDA r : KeyOf(r) = key)
    IN  NpMean([i \in 1..Len(g) |-> Obs(g[i].rt)])

\* One row per group in the given key order, labelled 0, 1, ... by
\* reset_index(); rt is the group's mean, a fraction.
GroupRows(t, keys) ==
    [k \in 1..Len(keys) |->
        Row(k - 1, (keys[k] - 1) \div 3, Flankers[((keys[k] - 1) % 3) + 1],
            GroupMean(t, keys[k]))]

\* groupby(..., sort=False): groups in the order they first appear.
GroupByMeanUnsorted(t) == GroupRows(t, FirstSeen(t))

\* pd.DataFrame(df.groupby(['participant', 'flankers'])['rt'].mean())
\*    .reset_index(): one row per (participant, flankers) pair that has a
\* trial, in sorted key order.
GroupByMean(t) ==
    GroupRows(t, SortedLabels({KeyOf(t[i]) : i \in 1..Len(t)}))

\* df.set_index('participant'): the participant column becomes the label.
SetIndex(frame) ==
    [k \in 1..Len(frame) |-> [frame[k] EXCEPT !.idx = frame[k].participant]]

\* df.reset_index(): the label goes back to a column, rows are labelled 0..
ResetIndex(frame) ==
    [k \in 1..Len(frame) |->
        [frame[k] EXCEPT !.idx = k - 1, !.participant = frame[k].idx]]

\* df[df['flankers'] == f]: the rows of one condition, labels kept.
RowsOf(frame, f) == SelectSeq(frame, LAMBDA r : r.flankers = f)

\* df[df['flankers'] == f]['rt']: their rt column, as a Series.
Select(frame, f) ==
    LET rows == RowsOf(frame, f)
    IN  [k \in 1..Len(rows) |-> Elem(rows[k].idx, rows[k].rt)]

\* np.array(df[...].iloc[:, [0, 2]]): columns participant and rt.
IncArray(frame) ==
    LET rows == RowsOf(frame, "incongruent")
    IN  [k \in 1..Len(rows) |-> <<rows[k].participant, rows[k].rt>>]

\* The Series of the rt column without set_index('participant'): rows
\* labelled 0, 1, ...
SeriesOfArrayRangeIndex(arr) == [k \in 1..Len(arr) |-> Elem(k - 1, arr[k][2])]

\* pd.Series(pd.DataFrame(arr, columns=['participant', 'rt'])
\*              .set_index('participant')['rt'])
SeriesOfArray(arr) == [k \in 1..Len(arr) |-> Elem(arr[k][1], arr[k][2])]

(***************************************************************************)
(* Spec: the notebook.  Its cells run top to bottom; a cell that raises    *)
(* leaves the kernel state as it was and the next cell can still be run.   *)
(* It starts after In [2]; no later cell reads the trial table df, which   *)
(* is left empty outside SpecAgg.                                          *)
(***************************************************************************)
Cells == {8, 10, 15, 16, 17, 18, 19}

\* The generator notebook has not run: its variables are unbound.
GenIdle ==
    /\ num_subj = 0
    /\ exp_name = <<>>
    /\ subj = 0
    /\ leading = <<>>
    /\ subj_id = <<>>
    /\ subj_ids = <<>>

Init ==
    /\ GenIdle
    /\ df = <<>>
    /\ pc = "In3"
    /\ \E n \in 1..MaxSubj :
          \E c \in [1..n -> RTs], i \in [1..n -> RTs], u \in [1..n -> NeutralRTs] :
              df_avg = Frame(n, c, i, u)
    /\ df_index = "range"
    /\ congr = <<>>
    /\ incongr = <<>>
    /\ inc_arr = <<>>
    /\ perm = <<>>
    /\ incongr2 = <<>>
    /\ congr_vs_incongr = <<>>
    /\ out = [c \in Cells |-> NotRun]

\* In [3]: congr / incongr from the default (row number) index.
Cell3 ==
    /\ pc = "In3"
    /\ congr' = Select(df_avg, "congruent")
    /\ incongr' = Select(df_avg, "incongruent")
    /\ pc' = "In8"
    /\ UNCHANGED <<gen, df, df_avg, df_index, inc_arr, perm, incongr2, congr_vs_incongr, out>>

\* In [8]: t, p = stats.ttest_rel(congr, incongr)
Cell8 ==
    /\ pc = "In8"
    /\ out' = [out EXCEPT ![8] = TTestRel(congr, incongr)]
    /\ pc' = "In10"
    /\ UNCHANGED <<gen, df, df_avg, df_index, congr, incongr, inc_arr, perm, incongr2,
                   congr_vs_incongr>>

\* In [10]: print(..., str(round(t, 2)), ' p (one-tailed) = ', str(p / 2)),
\* with the t and p of In [8].  The record keeps t itself and p / 2.
Cell10 ==
    /\ pc = "In10"
    /\ out' = [out EXCEPT ![10] =
                  IF out[8].kind = "result"
                  THEN Returned(out[8].statistic, Half(out[8].pvalue))
                  ELSE NameError]
    /\ pc' = "In11"
    /\ UNCHANGED <<gen, df, df_avg, df_index, congr, incongr, inc_arr, perm, incongr2,
                   congr_vs_incongr>>

\* In [11]: index by participant, then select again.
Cell11 ==
    /\ pc = "In11"
    /\ df_index = "range"
    /\ df_avg' = SetIndex(df_avg)
    /\ df_index' = "participant"
    /\ congr' = Select(df_avg', "congruent")
    /\ incongr' = Select(df_avg', "incongruent")
    /\ pc' = "In14"
    /\ UNCHANGED <<gen, df, inc_arr, perm, incongr2, congr_vs_incongr, out>>

\* The frame with the rows of arr written over its incongruent rows.
WriteBack(frame, arr) ==
    [k \in 1..Len(frame) |->
        IF frame[k].flankers = "incongruent"
        THEN LET j == Len(RowsOf(SubSeq(frame, 1, k), "incongruent"))
             IN  [frame[k] EXCEPT !.participant = arr[j][1], !.rt = arr[j][2]]
        ELSE frame[k]]

\* In [14] as it would be if inc_arr were a view of df_avg and not a copy:
\* the shuffle reorders the incongruent rows of df_avg too.
Cell14ShufflesFrame ==
    /\ pc = "In14"
    /\ df_index = "participant"
    /\ df_index' = "range"
    /\ \E f \in Perms(Len(IncArray(ResetIndex(df_avg)))) :
          /\ perm' = f
          /\ inc_arr' = Reorder(IncArray(ResetIndex(df_avg)), f)
    /\ df_avg' = WriteBack(ResetIndex(df_avg), inc_arr')
    /\ incongr2' = SeriesOfArray(inc_arr')
    /\ pc' = "In15"
    /\ UNCHANGED <<gen, df, congr, incongr, congr_vs_incongr, out>>

\* In [14]: reset the index, copy the incongruent rows to an array, shuffle
\* its rows in place, build incongr2 from it.
Cell14 ==
    /\ pc = "In14"
    /\ df_index = "participant"
    /\ df_avg' = ResetIndex(df_avg)
    /\ df_index' = "range"
    /\ \E f \in Perms(Len(IncArray(df_avg'))) :
          /\ perm' = f
          /\ inc_arr' = Reorder(IncArray(df_avg'), f)
    /\ incongr2' = SeriesOfArray(inc_arr')
    /\ pc' = "In15"
    /\ UNCHANGED <<gen, df, congr, incongr, congr_vs_incongr, out>>

\* In [15]: t, p = stats.ttest_rel(congr, incongr2)
Cell15 ==
    /\ pc = "In15"
    /\ out' = [out EXCEPT ![15] = TTestRel(congr, incongr2)]
    /\ pc' = "In16"
    /\ UNCHANGED <<gen, df, df_avg, df_index, congr, incongr, inc_arr, perm, incongr2,
                   congr_vs_incongr>>

\* In [16]: the t test on the two column selections of df_avg.
Cell16 ==
    /\ pc = "In16"
    /\ out' = [out EXCEPT ![16] = TTestRel(Select(df_avg, "congruent"),
                                           Select(df_avg, "incongruent"))]
    /\ pc' = "In17"
    /\ UNCHANGED <<gen, df, df_avg, df_index, congr, incongr, inc_arr, perm, incongr2,
                   congr_vs_incongr>>

\* In [17] as it would be with sort_index(inplace=True): the call changes
\* its operands.
Cell17SortsInPlace ==
    /\ pc = "In17"
    /\ congr' = SortIndex(congr)
    /\ incongr2' = SortIndex(incongr2)
    /\ out' = [out EXCEPT ![17] = TTestRel(congr', incongr2')]
    /\ pc' = "In18"
    /\ UNCHANGED <<gen, df, df_avg, df_index, incongr, inc_arr, perm, congr_vs_incongr>>

\* In [17]: stats.ttest_rel(congr.sort_index(), incongr2.sort_index())
Cell17 ==
    /\ pc = "In17"
    /\ out' = [out EXCEPT ![17] = TTestRel(SortIndex(congr), SortIndex(incongr2))]
    /\ pc' = "In18"
    /\ UNCHANGED <<gen, df, df_avg, df_index, congr, incongr, inc_arr, perm, incongr2,
                   congr_vs_incongr>>

\* In [18]: congr_vs_incongr = congr - incongr; stats.ttest_1samp(., 0)
Cell18 ==
    /\ pc = "In18"
    /\ congr_vs_incongr' = SeriesSub(congr, incongr)
    /\ out' = [out EXCEPT ![18] = TTest1Samp(congr_vs_incongr', 0)]
    /\ pc' = "In19"
    /\ UNCHANGED <<gen, df, df_avg, df_index, congr, incongr, inc_arr, perm, incongr2>>

\* In [19]: congr_vs_incongr = congr - incongr2; stats.ttest_1samp(., 0)
Cell19 ==
    /\ pc = "In19"
    /\ congr_vs_incongr' = SeriesSub(congr, incongr2)
    /\ out' = [out EXCEPT ![19] = TTest1Samp(congr_vs_incongr', 0)]
    /\ pc' = "done"
    /\ UNCHANGED <<gen, df, df_avg, df_index, congr, incongr, inc_arr, perm, incongr2>>

Next ==
    \/ Cell3
    \/ Cell8
    \/ Cell10
    \/ Cell11
    \/ Cell14
    \/ Cell15
    \/ Cell16
    \/ Cell17
    \/ Cell18
    \/ Cell19

Spec == Init /\ [][Next]_vars

(***************************************************************************)
(* SpecCall: the two entry points on their own.  congr and incongr are any *)
(* two Series A and B of 0..MaxSubj observations each (labelled 1..n in    *)
(* row order), and the calls are the ones the lesson makes: the paired     *)
(* test, the paired test with the operands exchanged, the one-sample test  *)
(* on A - B, and the paired test after B alone, or A and B alike, have     *)
(* been put in another row order.                                          *)
(***************************************************************************)
Calls == {"rel", "swapped", "one_samp", "one", "both"}

SeriesOf(f, n) == [k \in 1..n |-> Elem(k, f[k])]

InitCall ==
    /\ GenIdle
    /\ df = <<>>
    /\ pc = "rel"
    /\ df_avg = <<>>
    /\ df_index = "range"
    /\ \E n \in 0..MaxSubj : \E f \in [1..n -> RTs] : congr = SeriesOf(f, n)
    /\ \E n \in 0..MaxSubj : \E f \in [1..n -> RTs] : incongr = SeriesOf(f, n)
    /\ inc_arr = <<>>
    /\ perm = <<>>
    /\ incongr2 = <<>>
    /\ congr_vs_incongr = <<>>
    /\ out = [c \in Calls |-> NotRun]

\* stats.ttest_rel(A, B)
CallRel ==
    /\ pc = "rel"
    /\ out' = [out EXCEPT !["rel"] = TTestRel(congr, incongr)]
    /\ pc' = "swapped"
    /\ UNCHANGED <<gen, df, df_avg, df_index, congr, incongr, inc_arr, perm, incongr2,
                   congr_vs_incongr>>

\* stats.ttest_rel(B, A)
CallSwapped ==
    /\ pc = "swapped"
    /\ out' = [out EXCEPT !["swapped"] = TTestRel(incongr, congr)]
    /\ pc' = "one_samp"
    /\ UNCHANGED <<gen, df, df_avg, df_index, congr, incongr, inc_arr, perm, incongr2,
                   congr_vs_incongr>>

\* stats.ttest_1samp(A - B, 0)
CallOneSamp ==
    /\ pc = "one_samp"
    /\ congr_vs_incongr' = SeriesSub(congr, incongr)
    /\ out' = [out EXCEPT !["one_samp"] = TTest1Samp(congr_vs_incongr', 0)]
    /\ pc' = "shuffle"
    /\ UNCHANGED <<gen, df, df_avg, df_index, congr, incongr, inc_arr, perm, incongr2>>

\* B2: the rows of B in another order, each keeping its label.
CallShuffle ==
    /\ pc = "shuffle"
    /\ \E f \in Perms(Len(incongr)) :
          /\ perm' = f
          /\ incongr2' = Reorder(incongr, f)
    /\ pc' = "one"
    /\ UNCHANGED <<gen, df, df_avg, df_index, congr, incongr, inc_arr, congr_vs_incongr, out>>

\* stats.ttest_rel(A, B2)
CallOne ==
    /\ pc = "one"
    /\ out' = [out EXCEPT !["one"] = TTestRel(congr, incongr2)]
    /\ pc' = "both"
    /\ UNCHANGED <<gen, df, df_avg, df_index, congr, incongr, inc_arr, perm, incongr2,
                   congr_vs_incongr>>

\* stats.ttest_rel(A2, B2), A2 the rows of A in the row order of B2.
CallBoth ==
    /\ pc = "both"
    /\ out' = [out EXCEPT !["both"] =
                  TTestRel(IF Len(congr) = Len(incongr)
                           THEN Reorder(congr, perm) ELSE congr,
                           incongr2)]
    /\ pc' = "done"
    /\ UNCHANGED <<gen, df, df_avg, df_index, congr, incongr, inc_arr, perm, incongr2,
                   congr_vs_incongr>>

NextCall ==
    \/ CallRel
    \/ CallSwapped
    \/ CallOneSamp
    \/ CallShuffle
    \/ CallOne
    \/ CallBoth

SpecCall == InitCall /\ [][NextCall]_vars

(***************************************************************************)
(* Properties.  In SpecCall A is congr, B is incongr and B2 is incongr2.   *)
(***************************************************************************)
Ran(k) == out[k].kind # "none"

\* A and B are a paired sample of n >= 2 observations.
Paired == Len(congr) = Len(incongr) /\ Len(congr) >= 2

\* The differences D_i = A_i - B_i of a paired sample, their sum and the sum
\* of their squares.
Diffs == [i \in 1..Len(congr) |-> congr[i].val - incongr[i].val]

SumD == SumSeq(Diffs)

SumD2 == SumSeq(Squares(Diffs))

\* n * sum_i (D_i - mean(D))^2
NSumSqDev == Len(congr) * SumD2 - SumD * SumD

\* sum_i x_i * y_i of two Series of one length.
Dot(x, y) == SumSeq([i \in 1..Len(x) |-> x[i].val * y[i].val])

NegStat(t) == [t EXCEPT !.sign = -t.sign]

\* C1: for every paired sample A, B with n >= 2, the paired test on (A, B)
\* and the one-sample test on A - B against 0 return the same statistic and
\* the same probability.
C1_PairedEqualsOneSample ==
    (Paired /\ Ran("one_samp")) =>
        /\ out["rel"].kind = "result"
        /\ out["one_samp"] = out["rel"]

C1_Witness ==
    /\ Paired /\ Ran("one_samp")
    /\ out["rel"].statistic.cls = "finite"
    /\ out["rel"].statistic.sign = -1
    /\ out["rel"].pvalue.cls = "tail"

\* C2: putting A and B in another row order by the same permutation leaves
\* the statistic and the probability of the paired test unchanged.
C2_SamePermutationSameResult ==
    (Paired /\ Ran("both")) => out["both"] = out["rel"]

C2_Witness ==
    /\ Paired /\ Ran("both")
    /\ perm # IdPerm(Len(incongr))
    /\ incongr2 # incongr
    /\ Index(Reorder(congr, perm)) = Index(incongr2)
    /\ out["rel"].statistic.cls = "finite"
    /\ out["rel"].statistic.sign # 0

\* C3 as stated: whenever B alone is put in another row order, the statistic
\* differs from the statistic of the properly paired data.
C3_ReorderOneAlwaysChanges ==
    (Paired /\ Ran("one") /\ perm # IdPerm(Len(incongr)) /\ incongr2 # incongr)
        => out["one"].statistic # out["rel"].statistic

\* C3 amended: for a paired sample with n >= 2 and mean(D) # 0, putting B
\* alone in another row order changes the statistic exactly when it changes
\* sum_i A_i * B_i (it never changes mean(D)).
C3_ReorderOneChangesIffDotChanges ==
    (Paired /\ Ran("one") /\ SumD # 0) =>
        /\ out["one"].kind = "result"
        /\ (out["one"].statistic # out["rel"].statistic
                <=> Dot(congr, incongr2) # Dot(congr, incongr))

C3_Witness ==
    /\ Paired /\ Ran("one") /\ SumD # 0
    /\ out["rel"].statistic.cls = "finite"
    /\ out["one"].statistic.cls = "finite"
    /\ out["one"].statistic # out["rel"].statistic

\* C4: exchanging A and B negates the statistic and leaves the probability
\* unchanged.
C4_SwapNegatesStatistic ==
    (Ran("swapped") /\ out["rel"].kind = "result") =>
        /\ out["swapped"].kind = "result"
        /\ out["swapped"].statistic = NegStat(out["rel"].statistic)
        /\ out["swapped"].pvalue = out["rel"].pvalue

C4_Witness ==
    /\ Ran("swapped")
    /\ out["rel"].statistic.cls = "finite"
    /\ out["rel"].statistic.sign = 1
    /\ out["swapped"].statistic.sign = -1

\* C5: the paired test pairs by position and never reads the participant
\* labels: on congr and the shuffled incongr2 it raises nothing and returns
\* the result of the two value sequences taken row by row, whatever labels
\* the rows carry.
Relabelled(s) == [i \in 1..Len(s) |-> [s[i] EXCEPT !.idx = i]]

C5_PairsByPositionOnly ==
    Ran(15) =>
        /\ out[15].kind = "result"
        /\ out[15] = TTestRel(Relabelled(congr), Relabelled(incongr2))

C5_Witness ==
    /\ Ran(15) /\ Ran(8)
    /\ Index(congr) # Index(incongr2)
    /\ out[15].kind = "result"
    /\ out[15].statistic.cls = "finite"
    /\ out[15].statistic # out[8].statistic

C7_UnequalLengthsRaise ==
    (Ran("rel") /\ Len(congr) # Len(incongr)) => out["rel"] = ValueError

C7_Witness ==
    /\ Ran("rel")
    /\ Len(congr) >= 2 /\ Len(incongr) >= 2 /\ Len(congr) # Len(incongr)
    /\ out["rel"].kind = "ValueError"

\* C8: n >= 2, all differences equal to one non-zero value (stddev(D) = 0,
\* mean(D) # 0): no error, statistic +inf or -inf with the sign of the
\* difference, probability 0.
ConstantNonZeroDiffs ==
    /\ Paired
    /\ Diffs[1] # 0
    /\ \A i \in 1..Len(congr) : Diffs[i] = Diffs[1]

IdenticalPairs ==
    /\ Paired
    /\ \A i \in 1..Len(congr) : congr[i].val = incongr[i].val

C9_IdenticalPairsNotSignificant ==
    (Ran("rel") /\ IdenticalPairs) =>
        /\ out["rel"].kind = "result"
        /\ \/ out["rel"].statistic.cls = "nan"
           \/ out["rel"].statistic.cls = "finite" /\ out["rel"].statistic.sign = 0
        /\ out["rel"].pvalue.cls \in {"nan", "one"}

C9_Witness ==
    /\ Ran("rel") /\ IdenticalPairs
    /\ \E i \in 1..Len(congr) : congr[i].val # congr[1].val
    /\ out["rel"].kind = "result"

\* C10: n >= 2 and stddev(D) > 0: t = mean(D) / (stddev(D) / sqrt(n)) with
\* Bessel's correction, that is, t has the sign of mean(D) and
\* t^2 * sum_i (D_i - mean(D))^2 = n * (n - 1) * mean(D)^2.  With t^2 =
\* num/den and both sides multiplied by n * den:
\* num * (n * sum of squared deviations) = (n - 1) * SumD^2 * den.
C10_StatisticFormula ==
    (Ran("rel") /\ Paired /\ NSumSqDev > 0) =>
        /\ out["rel"].kind = "result"
        /\ out["rel"].statistic.cls = "finite"
        /\ out["rel"].statistic.sign = Sgn(SumD)
        /\ out["rel"].statistic.den > 0
        /\ out["rel"].statistic.num * NSumSqDev
              = (Len(congr) - 1) * SumD * SumD * out["rel"].statistic.den

C10_Witness ==
    /\ Ran("rel") /\ Paired /\ NSumSqDev > 0
    /\ Len(congr) = 3
    /\ SumD < 0
    /\ out["rel"].statistic.cls = "finite"

\* C11: every result returned for a valid paired sample (n >= 2, non-zero
\* variance of D) has its probability in [0, 1]: it is exactly 0, exactly 1,
\* or 2 * sf(x, df) taken at a finite x > 0 with df >= 1, which lies strictly
\* between 0 and 1 (sf(x, df) < 1/2 for x > 0).
InUnitInterval(p) ==
    \/ p.cls \in {"zero", "one"}
    \/ p.cls = "tail" /\ p.df >= 1 /\ p.num > 0 /\ p.den > 0

C11_ProbabilityInUnitInterval ==
    (Ran("rel") /\ Paired /\ NSumSqDev > 0) =>
        /\ out["rel"].kind = "result"
        /\ InUnitInterval(out["rel"].pvalue)

C11_Witness ==
    /\ Ran("rel") /\ Paired /\ NSumSqDev > 0
    /\ SumD < 0
    /\ out["rel"].pvalue.cls = "tail"

\* C12: the probability of In [8] is two-tailed, 2 * P(T_df > |t|) with
\* df = n - 1: it is a function of df and |t| alone (t^2 here), and the
\* one-tailed probability In [10] prints, p / 2, is P(T_df > |t|) itself.
TwoTailedOf(n, t) ==
    IF t.cls = "nan" THEN PNaN
    ELSE IF t.cls = "inf" THEN PZero
    ELSE IF t.num = 0 THEN POne
    ELSE [cls |-> "tail", df |-> n - 1, num |-> t.num, den |-> t.den]

OneTailedOf(n, t) ==
    IF t.cls = "nan" THEN PNaN
    ELSE IF t.cls = "inf" THEN PZero
    ELSE IF t.num = 0 THEN [cls |-> "half", df |-> 0, num |-> 0, den |-> 0]
    ELSE [cls |-> "sf", df |-> n - 1, num |-> t.num, den |-> t.den]

C12_TwoTailedAndHalf ==
    Ran(10) =>
        /\ out[8].kind = "result"
        /\ out[10].kind = "result"
        /\ out[8].pvalue = TwoTailedOf(Len(congr), out[8].statistic)
        /\ out[10].pvalue = OneTailedOf(Len(congr), out[8].statistic)

C12_Witness ==
    /\ Ran(10)
    /\ Len(congr) = 3
    /\ out[8].statistic.cls = "finite"
    /\ out[8].statistic.sign = -1
    /\ out[10].pvalue.cls = "sf"


(***************************************************************************)
(* SpecLesson: the lesson's own data.  The outputs of In [6] and In [7]    *)
(* print the congruent and the incongruent mean RT of the 27 participants, *)
(* in seconds with six decimals: kept here in microseconds.  df_avg holds  *)
(* a run of consecutive participants of that table and In [3] selects the  *)
(* two Series from it.  (The sums of squares of ttest_rel leave the        *)
(* integer range at this scale, so only the selection is run.)             *)
(***************************************************************************)
LessonCongr ==
    << 455259, 471231, 417540, 429758, 419096, 437178, 548638, 433748, 437577,
       488892, 539020, 438167, 462935, 417553, 410191, 549622, 568396, 450102,
       528508, 439243, 570766, 401993, 462927, 446840, 628185, 428642, 431829 >>

LessonIncongr ==
    << 471838, 499031, 473012, 506722, 478367, 453524, 591644, 492921, 504452,
       527152, 591181, 518216, 507257, 507033, 474612, 554172, 595977, 513179,
       565531, 501069, 591022, 428867, 530722, 490298, 650769, 494878, 437926 >>

\* Participants a .. a + k - 1 of the lesson's table.
LessonFrame(a, k) ==
    Frame(k, [p \in 1..k |-> LessonCongr[a + p - 1]],
             [p \in 1..k |-> LessonIncongr[a + p - 1]],
             [p \in 1..k |-> 0])

InitLesson ==
    /\ GenIdle
    /\ df = <<>>
    /\ pc = "In3"
    /\ \E a \in 1..Len(LessonCongr), k \in 1..Len(LessonCongr) :
          /\ a + k - 1 <= Len(LessonCongr)
          /\ df_avg = LessonFrame(a, k)
    /\ df_index = "range"
    /\ congr = <<>>
    /\ incongr = <<>>
    /\ inc_arr = <<>>
    /\ perm = <<>>
    /\ incongr2 = <<>>
    /\ congr_vs_incongr = <<>>
    /\ out = [c \in Cells |-> NotRun]

NextLesson == Cell3

SpecLesson == InitLesson /\ [][NextLesson]_vars

\* The selection of In [3] has run on the first four participants.
FirstFourSelected ==
    /\ pc = "In8"
    /\ df_avg = LessonFrame(1, 4)

\* d = a - b and its mean, as ttest_rel(congr, incongr) forms them.
LessonD == ArrSub(AsArray(congr), AsArray(incongr))

LessonMeanD == NpMean(LessonD)

\* C13 as stated: on the first four participants of the lesson data n = 4,
\* df = 3 and mean(D) rounds to -0.0556 (it lies within 0.00005 s = 50 us of
\* -55600 us).
C13_MeanIsMinus0556 ==
    FirstFourSelected =>
        /\ Len(LessonD) = 4
        /\ Len(LessonD) - 1 = 3
        /\ LessonMeanD.cls = "num"
        /\ Abs(LessonMeanD.num + 55600 * LessonMeanD.den) <= 50 * LessonMeanD.den

\* C13 (amended): on the first four participants of the lesson data n = 4,
\* df = 3 and mean(D) = -176815 / 4 us = -0.04420375 s, which rounds to
\* -0.0442.
C13_MeanIsMinus0442 ==
    FirstFourSelected =>
        /\ Len(LessonD) = 4
        /\ Len(LessonD) - 1 = 3
        /\ Vals(LessonD) = << -16579, -27800, -55472, -76964 >>
        /\ LessonMeanD = Frac(-176815, 4)
        /\ Abs(LessonMeanD.num + 44200 * LessonMeanD.den) <= 50 * LessonMeanD.den

C13_Witness ==
    /\ FirstFourSelected
    /\ Vals(AsArray(congr)) = SubSeq(LessonCongr, 1, 4)
    /\ Vals(AsArray(incongr)) = SubSeq(LessonIncongr, 1, 4)


\* The two arrays the paired test of cell k is called on.
Operands(k) ==
    IF k = 8 THEN <<AsArray(congr), AsArray(incongr)>>
    ELSE IF k = 15 THEN <<AsArray(congr), AsArray(incongr2)>>
    ELSE IF k = 16 THEN <<AsArray(Select(df_avg, "congruent")),
                          AsArray(Select(df_avg, "incongruent"))>>
    ELSE <<AsArray(SortIndex(congr)), AsArray(SortIndex(incongr2))>>

HoldsOwnDifferences(s) ==
    /\ Labels(s) = Labels(congr)
    /\ Len(s) = Len(congr)
    /\ \A l \in Labels(congr) :
          /\ ~Loc(s, l).na
          /\ Loc(s, l).val = Loc(congr, l).val - Loc(incongr, l).val

\* C15: subtraction of two Series indexed by participant aligns by label:
\* for every row order of incongr2, congr - incongr2 holds for each
\* participant the same difference as congr - incongr, and the one-sample
\* test of cell 19 returns the result of cell 18 with no sort_index call.
C15_SubtractionAlignsByLabel ==
    Ran(19) =>
        /\ HoldsOwnDifferences(congr_vs_incongr)
        /\ HoldsOwnDifferences(SeriesSub(congr, incongr))
        /\ \A l \in Labels(congr) :
              Loc(congr_vs_incongr, l) = Loc(SeriesSub(congr, incongr), l)
        /\ out[19].kind = "result"
        /\ out[19] = out[18]

C15_Witness ==
    /\ Ran(19)
    /\ perm # IdPerm(Len(perm))
    /\ AsArray(incongr2) # AsArray(incongr)
    /\ out[15] # out[8]
    /\ out[19].statistic.cls = "finite"
    /\ out[19] = out[18]


\* C16: for two Series over the same unique participant labels, in any row
\* orders (congr put in every row order, incongr2 in the order the shuffle
\* gave it), sort_index() on both puts the same participant at each position
\* and the paired test on the sorted Series, the one of cell 17 included,
\* returns the result of the properly paired data (that of cell 8): the
\* sorted congr is the same Series whatever order its rows were in, so the
\* test on it is the test cell 17 ran.
C16_SortIndexRestoresPairing ==
    Ran(17) =>
        LET b == SortIndex(incongr2)
        IN  /\ out[17] = TTestRel(SortIndex(congr), b)
            /\ out[17].kind = "result"
            /\ out[17] = out[8]
            /\ \A g \in Perms(Len(congr)) :
                  LET a == SortIndex(Reorder(congr, g))
                  IN  /\ a = SortIndex(congr)
                      /\ Index(a) = Index(b)
                      /\ \A i \in 1..Len(a) :
                            /\ a[i] = Loc(congr, a[i].idx)
                            /\ b[i] = Loc(incongr, a[i].idx)

C16_Witness ==
    /\ Ran(17)
    /\ Index(incongr2) # Index(congr)
    /\ out[15] # out[8]
    /\ out[17] = out[8]
    /\ out[17].statistic.cls = "finite"
    /\ \E g \in Perms(Len(congr)) :
          /\ Index(Reorder(congr, g)) # Index(congr)
          /\ Index(Reorder(congr, g)) # Index(incongr2)


(***************************************************************************)
(* SpecAgg: In [2] and In [3] on a trial table.  read_csv returns any      *)
(* table of 1..MaxRows trials, in any row order, of participants           *)
(* 1..MaxSubj in the three conditions.                                     *)
(***************************************************************************)
InitAgg ==
    /\ GenIdle
    /\ pc = "In2"
    /\ \E n \in 1..MaxRows :
          \E P \in [1..n -> 1..MaxSubj], F \in [1..n -> 1..3], R \in [1..n -> RTs] :
              df = [k \in 1..n |-> Trial(P[k], Flankers[F[k]], R[k])]
    /\ df_avg = <<>>
    /\ df_index = "range"
    /\ congr = <<>>
    /\ incongr = <<>>
    /\ inc_arr = <<>>
    /\ perm = <<>>
    /\ incongr2 = <<>>
    /\ congr_vs_incongr = <<>>
    /\ out = [c \in Cells |-> NotRun]

\* In [2]: df_avg = pd.DataFrame(df.groupby([...])['rt'].mean()).reset_index()
Cell2 ==
    /\ pc = "In2"
    /\ df_avg' = GroupByMean(df)
    /\ pc' = "In3"
    /\ UNCHANGED <<gen, df, df_index, congr, incongr, inc_arr, perm, incongr2,
                   congr_vs_incongr, out>>

NextAgg ==
    \/ Cell2
    \/ Cell3

SpecAgg == InitAgg /\ [][NextAgg]_vars

\* Participant p has a trial in condition f.
HasTrial(p, f) ==
    \E i \in 1..Len(df) : df[i].participant = p /\ df[i].flankers = f

\* Every participant of the table has trials in both compared conditions.
CompleteDesign ==
    \A p \in Participants(df) :
        HasTrial(p, "congruent") /\ HasTrial(p, "incongruent")

\* The participant of the row of df_avg labelled x.
ParticipantOf(x) ==
    df_avg[CHOOSE k \in 1..Len(df_avg) : df_avg[k].idx = x].participant

\* congr and incongr hold one value per participant, the mean of that
\* participant's trials in the condition, with the same participant at each
\* position.
OnePerParticipant ==
    /\ Len(congr) = Len(incongr)
    /\ Len(congr) = Cardinality(Participants(df))
    /\ \A i \in 1..Len(congr) :
          ParticipantOf(congr[i].idx) = ParticipantOf(incongr[i].idx)
    /\ \A p \in Participants(df) :
          \E i \in 1..Len(congr) :
              /\ ParticipantOf(congr[i].idx) = p
              /\ congr[i].val = GroupMean(df, KeyOf(Trial(p, "congruent", 0)))
              /\ incongr[i].val = GroupMean(df, KeyOf(Trial(p, "incongruent", 0)))

Shuffled == pc \in {"In15", "In16", "In17", "In18", "In19", "done"}

\* C18: the shuffle of In [14] keeps each RT with its participant: incongr2
\* has the rows of incongr, every participant once with that participant's
\* RT, in the row order the shuffle produced and differing in nothing else.
C18_ShuffleKeepsPairs ==
    Shuffled =>
        /\ Len(incongr2) = Len(incongr)
        /\ Labels(incongr2) = Labels(incongr)
        /\ Cardinality(Labels(incongr2)) = Len(incongr2)
        /\ \A l \in Labels(incongr) : Loc(incongr2, l) = Loc(incongr, l)
        /\ incongr2 = Reorder(incongr, perm)
        /\ \A k \in 1..Len(inc_arr) :
              inc_arr[k] = <<incongr2[k].idx, incongr2[k].val>>

C18_Witness ==
    /\ Shuffled
    /\ perm # IdPerm(Len(perm))
    /\ Index(incongr2) # Index(incongr)
    /\ Vals(AsArray(incongr2)) # Vals(AsArray(incongr))
    /\ \A l \in Labels(incongr) : Loc(incongr2, l) = Loc(incongr, l)


\* The rows of df_avg without their labels: participant, condition and RT in
\* row order.  The participant is the label while df_avg is indexed by it.
FrameRows(frame, index) ==
    [k \in 1..Len(frame) |->
        << IF index = "participant" THEN frame[k].idx ELSE frame[k].participant,
           frame[k].flankers, frame[k].rt >>]

\* C19: In [14] (reset_index, building and shuffling inc_arr) leaves congr
\* and incongr as they were and the rows of df_avg in the same order with
\* the same values, and the paired test of In [16] on the two column
\* selections of df_avg returns the result of the first test, In [8].
C19_ShuffleLeavesFrame ==
    /\ [][pc = "In14" =>
            /\ congr' = congr
            /\ incongr' = incongr
            /\ FrameRows(df_avg', df_index') = FrameRows(df_avg, df_index)]_vars
    /\ [](Ran(16) =>
            /\ out[16].kind = "result"
            /\ out[16] = out[8]
            /\ Vals(AsArray(Select(df_avg, "congruent"))) = Vals(AsArray(congr))
            /\ Vals(AsArray(Select(df_avg, "incongruent"))) = Vals(AsArray(incongr)))

C19_Witness ==
    /\ Ran(16)
    /\ perm # IdPerm(Len(perm))
    /\ inc_arr # IncArray(df_avg)
    /\ out[15] # out[8]
    /\ out[16] = out[8]
    /\ out[16].statistic.cls \in {"finite", "inf"}


AllNaN(s) == \A i \in 1..Len(s) : s[i].na

\* C20: congr - incongr gives one difference per participant only for Series
\* selected after set_index('participant').  While congr and incongr carry
\* the row numbers of the first selection (In [3], until In [11] runs) their
\* label sets are disjoint and the subtraction would align nothing: its
\* result has one NaN per row of either Series, no difference at all, and the
\* one-sample test on it returns (NaN, NaN).  The subtraction In [18] runs,
\* on the Series selected after set_index, holds exactly one difference per
\* participant.
C20_SubtractionNeedsParticipantIndex ==
    /\ pc \in {"In8", "In10", "In11"} =>
          /\ Labels(congr) \cap Labels(incongr) = {}
          /\ Len(SeriesSub(congr, incongr)) = Len(congr) + Len(incongr)
          /\ AllNaN(SeriesSub(congr, incongr))
          /\ TTest1Samp(SeriesSub(congr, incongr), 0) = Returned(TNaN, PNaN)
    /\ Ran(18) =>
          /\ HoldsOwnDifferences(congr_vs_incongr)
          /\ Index(congr_vs_incongr) = Index(congr)
          /\ ~AllNaN(congr_vs_incongr)

\* After In [18], where df_avg is back on row numbers (In [14]): the
\* difference of In [18] is complete while the two column selections of
\* df_avg, labelled by row number as in In [3], would align nothing.
C20_Witness ==
    /\ Ran(18)
    /\ Len(congr) >= 2
    /\ HoldsOwnDifferences(congr_vs_incongr)
    /\ out[18].statistic.cls = "finite"
    /\ df_index = "range"
    /\ AllNaN(SeriesSub(Select(df_avg, "congruent"), Select(df_avg, "incongruent")))


(***************************************************************************)
(* SpecGen: the fake-RT generator notebook, 4-viz/make_rt_data.  In [3]    *)
(* (first Seaborn lesson) and In [7] (nested data lesson) each loop        *)
(*     for subj in range(1, num_subj+1)                                    *)
(* and build subj_id = exp_name + '_s' + leading + str(subj).  A Python    *)
(* string is a sequence of one-character strings.  num_subj is the setting *)
(* assigned before the loop (5 for In [3], 20 in In [7]); the model lets   *)
(* it be any number in 0..MaxNumSubj.  One step is one iteration; the      *)
(* random trial data of the iteration does not enter subj_id and is left   *)
(* out.                                                                    *)
(***************************************************************************)
NumSubjNested == 20

ExpNameFirst == <<"l", "d", "t">>

ExpNameNested == <<"l", "d", "t", "2">>

DigitChars == <<"0", "1", "2", "3", "4", "5", "6", "7", "8", "9">>

\* str(n) for an int n >= 0: its decimal digits, most significant first.
RECURSIVE Str(_)
Str(n) ==
    IF n < 10 THEN <<DigitChars[n + 1]>>
    ELSE Str(n \div 10) \o <<DigitChars[(n % 10) + 1]>>

\* A prefix that is '0' up to and including 10.
LeadingThrough10(n) == IF n <= 10 THEN <<"0">> ELSE <<>>

\* if subj < 10: leading = '0'  else: leading = ''
Leading(n) == IF n < 10 THEN <<"0">> ELSE <<>>

\* exp_name + '_s' + leading + str(subj)
SubjId(name, lead, n) == name \o <<"_", "s">> \o lead \o Str(n)

\* The t-test notebook has not run.
TTestIdle ==
    /\ df = <<>>
    /\ df_avg = <<>>
    /\ df_index = "range"
    /\ congr = <<>>
    /\ incongr = <<>>
    /\ inc_arr = <<>>
    /\ perm = <<>>
    /\ incongr2 = <<>>
    /\ congr_vs_incongr = <<>>
    /\ out = [c \in Cells |-> NotRun]

InitGen ==
    /\ TTestIdle
    /\ \/ pc = "Gen3" /\ exp_name = ExpNameFirst
       \/ pc = "Gen7" /\ exp_name = ExpNameNested
    /\ num_subj \in 0..MaxNumSubj
    /\ subj = 0
    /\ leading = <<>>
    /\ subj_id = <<>>
    /\ subj_ids = <<>>

\* One iteration of the for loop: range(1, num_subj+1) yields subj + 1.
Iterate ==
    /\ subj < num_subj
    /\ subj' = subj + 1
    /\ leading' = Leading(subj')
    /\ subj_id' = SubjId(exp_name, leading', subj')
    /\ subj_ids' = Append(subj_ids, subj_id')
    /\ UNCHANGED <<num_subj, exp_name, pc, df, df_avg, df_index, congr, incongr,
                   inc_arr, perm, incongr2, congr_vs_incongr, out>>

\* In [3]: the loop of the first Seaborn lesson.
Gen3Iterate == pc = "Gen3" /\ Iterate

\* In [7]: the loop of the nested data lesson.
Gen7Iterate == pc = "Gen7" /\ Iterate

NextGen ==
    \/ Gen3Iterate
    \/ Gen7Iterate

SpecGen == InitGen /\ [][NextGen]_vars

\* The number a sequence of decimal digit characters writes.
RECURSIVE DecValue(_)
DecValue(d) ==
    IF d = <<>> THEN 0
    ELSE 10 * DecValue(SubSeq(d, 1, Len(d) - 1))
         + (CHOOSE v \in 0..9 : DigitChars[v + 1] = d[Len(d)])

\* What follows exp_name + '_s' in an ID.
NumberPart(id) == SubSeq(id, Len(exp_name) + 3, Len(id))

\* C21: in both loops the k-th ID made is exp_name + '_s' + the number k
\* zero-padded to two digits: the part after '_s' is made of decimal digits
\* that write k, it has two characters for k < 100 and starts with '0'
\* exactly when k < 10.  The IDs of distinct subjects are distinct, and for
\* num_subj <= 99 all IDs have one length.
C21_ZeroPaddedIds ==
    pc \in {"Gen3", "Gen7"} =>
        /\ subj = Len(subj_ids)
        /\ subj > 0 => subj_id = subj_ids[subj]
        /\ \A k \in 1..Len(subj_ids) :
              LET id == subj_ids[k]
                  part == NumberPart(id)
              IN  /\ SubSeq(id, 1, Len(exp_name) + 2) = exp_name \o <<"_", "s">>
                  /\ \A i \in 1..Len(part) :
                        \E v \in 0..9 : DigitChars[v + 1] = part[i]
                  /\ DecValue(part) = k
                  /\ k < 100 => Len(part) = 2
                  /\ part[1] = "0" <=> k < 10
        /\ \A j, k \in 1..Len(subj_ids) :
              j < k => subj_ids[j] # subj_ids[k]
        /\ num_subj <= 99 =>
              \A k \in 1..Len(subj_ids) :
                  Len(subj_ids[k]) = Len(exp_name) + 4

\* In [7] as the file has it: all 20 subjects made.
C21_Witness ==
    /\ pc = "Gen7"
    /\ num_subj = NumSubjNested
    /\ subj = num_subj
    /\ Len(subj_ids) = NumSubjNested
    /\ subj_ids[9] = <<"l", "d", "t", "2", "_", "s", "0", "9">>
    /\ subj_ids[10] = <<"l", "d", "t", "2", "_", "s", "1", "0">>

====
